---- MODULE Spec2Model ----
(***************************************************************************)
(* Cognito: the note collection of App, its mirror in localStorage, the    *)
(* Drive folder behind the Apps Script relay, the sync merge (additive and *)
(* replace revisions of syncDrive), the debounced auto-save, and the link  *)
(* extraction of Graph and Editor; the navigation through bracket links,   *)
(* the undo history of Editor, the live debounce timers, and the analysis  *)
(* requests to the AI service.                                             *)
(*                                                                         *)
(* A string is a sequence of one-character strings, so that the regular    *)
(* expression scan, toLowerCase, trim and includes are computed character  *)
(* by character as the JavaScript does.  A note is a record                *)
(* [id, title, content, lastModified] (src/types.ts:1-6).                  *)
(***************************************************************************)
EXTENDS Integers, Sequences, FiniteSets, TLC

VARIABLES
    policy,         \* which revision of syncDrive runs: "additive" | "replace"
    revision,       \* which revision of App runs: "App" | "part_002" | "part_003"
    history,        \* part_003's navigation history (ids), <<>> in the others
    notes,          \* App state `notes`
    localStore,     \* localStorage['cognito_notes_v1']
    drive,          \* files of the Drive folder, in listing order
    fetches,        \* syncDrive GET requests / responses in flight
    posts,          \* POST requests / responses in flight, with the awaiting handler
    typingTimeout,  \* App state `typingTimeout`: the live timer it designates, or NoTimer
    timeouts,       \* the live timers set by updateNote, with the seconds elapsed
    saveStatus,     \* 'saved' | 'saving' | 'unsaved'
    isSyncing,      \* App state `isSyncing`
    activeNoteId,   \* App state `activeNoteId`, or NoId
    now,            \* Date.now()
    nextId,         \* source of crypto.randomUUID() values
    linksHash,      \* dependency of Graph's second useMemo at the last render
    graphData,      \* memoized value handed to the d3 simulation
    lastSnapshot,   \* the drive notes merged last, <<>> once a local operation has run
    editor,         \* Editor state: history, historyIndex, the history timer
    ai,             \* aiPanelOpen, aiLoading, aiResponse and the analyses in flight
    past,           \* what a scenario remembers of its earlier states, or NoPast
    lastOp          \* the handler that ran last, with its arguments

vars == <<policy, revision, history, notes, localStore, drive, fetches, posts, typingTimeout, timeouts,
          saveStatus, isSyncing, activeNoteId, now, nextId, linksHash,
          graphData, lastSnapshot, editor, ai, past, lastOp>>

----------------------------------------------------------------------------
(* Bounds *)

MaxNotes == 2
MaxTime == 2
MaxChunks == 4

----------------------------------------------------------------------------
(* Strings *)

Null == "null"
NoId == -1

Concat(ss) ==
    LET RECURSIVE Go(_)
        Go(i) == IF i > Len(ss) THEN <<>> ELSE ss[i] \o Go(i + 1)
    IN Go(1)

\* String.prototype.toLowerCase on one character of the alphabet
LowerChar(c) ==
    CASE c = "A" -> "a"
      [] c = "B" -> "b"
      [] OTHER -> c

toLowerCase(s) == [i \in DOMAIN s |-> LowerChar(s[i])]

\* String.prototype.trim: strips leading and trailing white space
trim(s) ==
    LET first == IF \E i \in DOMAIN s : s[i] # " "
                 THEN CHOOSE i \in DOMAIN s : s[i] # " " /\ \A j \in 1..(i - 1) : s[j] = " "
                 ELSE Len(s) + 1
        last == IF \E i \in DOMAIN s : s[i] # " "
                THEN CHOOSE i \in DOMAIN s : s[i] # " " /\ \A j \in (i + 1)..Len(s) : s[j] = " "
                ELSE 0
    IN SubSeq(s, first, last)

\* String.prototype.includes
includes(s, sub) ==
    \E i \in 1..(Len(s) - Len(sub) + 1) : SubSeq(s, i, i + Len(sub) - 1) = sub

Open == <<"[", "[">>
Close == <<"]", "]">>

IsAt(s, i, pat) == i >= 1 /\ i + Len(pat) - 1 <= Len(s) /\ SubSeq(s, i, i + Len(pat) - 1) = pat

(***************************************************************************)
(* The captures of /\[\[(.*?)\]\]/g over s, in match order: the leftmost   *)
(* "[[" at or after the cursor that has a "]]" at least two characters     *)
(* later, the text up to the first such "]]", then the scan resumes after  *)
(* that "]]".  The alphabet has no line terminator, so `.` matches every   *)
(* character.                                                              *)
(***************************************************************************)
WikiCaptures(s) ==
    LET Closes(p) == {q \in (p + 2)..Len(s) : IsAt(s, q, Close)}
        Starts(from) == {p \in from..Len(s) : IsAt(s, p, Open) /\ Closes(p) # {}}
        Min(S) == CHOOSE x \in S : \A y \in S : x <= y
        RECURSIVE Scan(_)
        Scan(from) ==
            IF Starts(from) = {} THEN <<>>
            ELSE LET p == Min(Starts(from))
                     q == Min(Closes(p))
                 IN <<SubSeq(s, p + 2, q - 1)>> \o Scan(q + 2)
    IN Scan(1)

----------------------------------------------------------------------------
(* Graph: the first useMemo (nodesData, linksData, linksHash) *)

Note(id, title, content, lastModified) ==
    [id |-> id, title |-> title, content |-> content, lastModified |-> lastModified]

\* new Map(notes.map(n => [n.title.toLowerCase(), n.id])).get(t): a later
\* note with the same lower-cased title overwrites an earlier one
titleToIdMapCaseSensitive(ns, t) ==
    LET hits == {i \in DOMAIN ns : ns[i].title = t}
    IN IF hits = {} THEN NoId
       ELSE ns[CHOOSE i \in hits : \A j \in hits : j <= i].id

titleToIdMap(ns, t) ==
    LET hits == {i \in DOMAIN ns : toLowerCase(ns[i].title) = t}
    IN IF hits = {} THEN NoId
       ELSE ns[CHOOSE i \in hits : \A j \in hits : j <= i].id

nodesDataOf(ns) == [i \in DOMAIN ns |-> [id |-> ns[i].id, title |-> ns[i].title]]

\* the links pushed while scanning one source note
linksOfNote(ns, sourceNote) ==
    LET caps == WikiCaptures(sourceNote.content)
        RECURSIVE Go(_)
        Go(k) ==
            IF k > Len(caps) THEN <<>>
            ELSE LET targetId == titleToIdMap(ns, toLowerCase(caps[k]))
                 IN (IF targetId # NoId
                     THEN <<[source |-> sourceNote.id, target |-> targetId]>>
                     ELSE <<>>) \o Go(k + 1)
    IN Go(1)

linksDataOf(ns) == Concat([i \in DOMAIN ns |-> linksOfNote(ns, ns[i])])

\* JSON.stringify(links.map(l => `${l.source}-${l.target}`)) + notes.length:
\* the list of source-target pairs followed by the note count
linksHashOf(ns) ==
    LET links == linksDataOf(ns)
    IN <<[k \in DOMAIN links |-> <<links[k].source, links[k].target>>], Len(ns)>>

\* useMemo(() => ({nodesData, linksData}), [linksHash]): recomputed only when
\* linksHash differs from the one of the previous render
graphDataMemo(oldHash, oldData, ns) ==
    IF linksHashOf(ns) # oldHash
    THEN [nodesData |-> nodesDataOf(ns), linksData |-> linksDataOf(ns)]
    ELSE oldData

----------------------------------------------------------------------------
(* Editor: wiki links of parseMarkdown, backlinks *)

(***************************************************************************)
(* The wiki-link replacement of parseMarkdown: one entry per match, with   *)
(* the text shown and whether it is styled as an existing note.  The       *)
(* replacements that run before it (HTML escaping, headings, emphasis)     *)
(* rewrite only the characters & < > # * which the alphabet lacks.         *)
(***************************************************************************)
parseMarkdown(text, ns) ==
    LET caps == WikiCaptures(text)
    IN [k \in DOMAIN caps |->
          LET linkTitle == trim(caps[k])
          IN [rawTitle |-> caps[k],
              exists |-> \E i \in DOMAIN ns :
                            toLowerCase(ns[i].title) = toLowerCase(linkTitle)]]

backlinks(ns, note) ==
    {i \in DOMAIN ns :
        /\ ns[i].id # note.id
        /\ includes(toLowerCase(ns[i].content),
                    Open \o toLowerCase(note.title) \o Close)}

----------------------------------------------------------------------------
(* storageService: localStorage *)

StoredArray(ns) == [kind |-> "array", value |-> ns]
StoredAbsent == [kind |-> "absent", value |-> <<>>]

\* a stored text that is not the JSON of an array: one JSON.parse throws on,
\* or the JSON of null, of an object or of a number
StoredText(kind) == [kind |-> kind, value |-> <<>>]
CorruptKinds == {"unparseable", "null", "object", "number"}

\* the value getNotesFromLocal returns is an array: the parsed array, [] for
\* an absent item and [] from the catch block; a text that parses to another
\* value comes back as parsed
returnsArray(store) == store.kind \in {"array", "absent", "unparseable"}

\* data ? JSON.parse(data) : [], and [] from the catch block: the elements
\* of the value returned (a value that is not an array has none)
getNotesFromLocal(store) ==
    IF store.kind = "array" THEN store.value ELSE <<>>

\* notes.findIndex / notes.filter on a value that is not an array raises a
\* TypeError, and setItem is not reached
throwsTypeError(store) == ~returnsArray(store)

\* the function below without its findIndex: the note is always pushed
saveNoteToLocalPush(store, note) ==
    IF throwsTypeError(store) THEN store
    ELSE StoredArray(Append(getNotesFromLocal(store), note))

saveNoteToLocal(store, note) ==
    LET ns == getNotesFromLocal(store)
        hits == {i \in DOMAIN ns : ns[i].id = note.id}
    IN IF throwsTypeError(store) THEN store
       ELSE IF hits # {}
       THEN LET index == CHOOSE i \in hits : \A j \in hits : i <= j
            IN StoredArray([ns EXCEPT ![index] = note])
       ELSE StoredArray(Append(ns, note))

FilterSeq(ns, Keep(_)) ==
    LET RECURSIVE Go(_)
        Go(i) == IF i > Len(ns) THEN <<>>
                 ELSE (IF Keep(ns[i]) THEN <<ns[i]>> ELSE <<>>) \o Go(i + 1)
    IN Go(1)

deleteNoteFromLocal(store, id) ==
    LET Keep(n) == n.id # id
    IN IF throwsTypeError(store) THEN store
       ELSE StoredArray(FilterSeq(getNotesFromLocal(store), Keep))

----------------------------------------------------------------------------
(* Apps Script relay and storageService: Drive *)

\* doGet: one entry per file of the folder, stamped with the file's own
\* last-update time
doGet(files) ==
    [i \in DOMAIN files |->
        [id |-> files[i].id, title |-> files[i].title,
         content |-> files[i].content, lastModified |-> files[i].lastUpdated]]

FetchFailures == {"networkError", "httpError", "notArray"}

(***************************************************************************)
(* fetchNotesFromDrive for one response: outcome is "array" with the JSON  *)
(* body, or one of FetchFailures.  A rejected fetch and a non-OK status    *)
(* throw inside the try block and end in the catch, which returns []; a    *)
(* body that is not an array returns [].  An array is mapped item by item, *)
(* `id` and `lastModified` defaulting when falsy.                          *)
(***************************************************************************)
fetchNotesFromDrive(outcome, body, freshId, time) ==
    IF outcome = "array"
    THEN [threw |-> FALSE,
          value |-> [i \in DOMAIN body |->
                       Note(IF body[i].id = NoId THEN freshId + i ELSE body[i].id,
                            body[i].title,
                            body[i].content,
                            IF body[i].lastModified = 0 THEN time
                            ELSE body[i].lastModified)]]
    ELSE [threw |-> FALSE, value |-> <<>>]

----------------------------------------------------------------------------
(* App.syncDrive: the two merges *)

\* a JavaScript Map as the sequence of its [key, value] entries in insertion
\* order; set() on a present key keeps the entry's position
MapOf(ns) ==
    LET RECURSIVE Go(_, _)
        Go(i, m) ==
            IF i > Len(ns) THEN m
            ELSE LET hits == {k \in DOMAIN m : m[k].key = ns[i].title}
                 IN Go(i + 1,
                       IF hits = {} THEN Append(m, [key |-> ns[i].title, value |-> ns[i]])
                       ELSE [k \in DOMAIN m |->
                               IF k \in hits THEN [key |-> m[k].key, value |-> ns[i]]
                               ELSE m[k]])
    IN Go(1, <<>>)

MapHas(m, key) == \E k \in DOMAIN m : m[k].key = key
MapGet(m, key) == m[CHOOSE k \in DOMAIN m : m[k].key = key].value
MapSet(m, key, value) ==
    IF MapHas(m, key)
    THEN [k \in DOMAIN m |-> IF m[k].key = key THEN [key |-> key, value |-> value] ELSE m[k]]
    ELSE Append(m, [key |-> key, value |-> value])
MapValues(m) == [k \in DOMAIN m |-> m[k].value]

\* the condition below with >= for >: a drive note as new as the local one
\* is taken too
takesDriveNoteOnTie(hasLocal, remoteLastModified, localLastModified) ==
    ~hasLocal \/ remoteLastModified >= localLastModified

\* !localNote || (remoteLastModified > localLastModified)
takesDriveNote(hasLocal, remoteLastModified, localLastModified) ==
    ~hasLocal \/ remoteLastModified > localLastModified

(***************************************************************************)
(* The additive merge (the setNotes updater of App.tsx:473-496): a Map of  *)
(* the previous notes by title; a drive note is taken when the title is    *)
(* new or the drive note is strictly newer, keeping the local id, and each *)
(* taken note is written to localStorage with saveNoteToLocal.  Returns    *)
(* the new collection and the new stored value.                            *)
(***************************************************************************)
mergeAdditive(prevNotes, driveNotes, store) ==
    LET RECURSIVE Loop(_, _, _, _)
        Loop(i, newNoteMap, st, hasChanges) ==
            IF i > Len(driveNotes)
            THEN [notes |-> IF hasChanges THEN MapValues(newNoteMap) ELSE prevNotes,
                  store |-> st]
            ELSE LET dNote == driveNotes[i]
                     hasLocal == MapHas(newNoteMap, dNote.title)
                     remoteLastModified == dNote.lastModified
                     localLastModified ==
                         IF hasLocal THEN MapGet(newNoteMap, dNote.title).lastModified ELSE 0
                 IN IF takesDriveNote(hasLocal, remoteLastModified, localLastModified)
                    THEN LET noteToSave ==
                                 [dNote EXCEPT !.id =
                                     IF hasLocal THEN MapGet(newNoteMap, dNote.title).id
                                     ELSE dNote.id]
                         IN Loop(i + 1, MapSet(newNoteMap, dNote.title, noteToSave),
                                 saveNoteToLocal(st, noteToSave), TRUE)
                    ELSE Loop(i + 1, newNoteMap, st, hasChanges)
    IN Loop(1, MapOf(prevNotes), store, FALSE)

\* the map callback below with the drive note's own id kept
mergedEntryDriveId(prevNotes, dNote) ==
    LET hits == {k \in DOMAIN prevNotes : prevNotes[k].title = dNote.title}
        localNote == prevNotes[CHOOSE k \in hits : \A j \in hits : k <= j]
    IN IF hits # {} /\ localNote.lastModified > dNote.lastModified
       THEN localNote
       ELSE dNote

(***************************************************************************)
(* The map callback of the replace merge (part_002:78-93): the first local *)
(* note of the drive note's title is kept when it is strictly newer, else  *)
(* the drive note is taken under the local id.  (`localNote.id || dNote.id`*)
(* is localNote.id, ids being non-empty.)                                  *)
(***************************************************************************)
mergedEntry(prevNotes, dNote) ==
    LET hits == {k \in DOMAIN prevNotes : prevNotes[k].title = dNote.title}
        localNote == prevNotes[CHOOSE k \in hits : \A j \in hits : k <= j]
        remoteLastModified == dNote.lastModified
        localLastModified == IF hits # {} THEN localNote.lastModified ELSE 0
    IN IF hits # {} /\ localLastModified > remoteLastModified
       THEN localNote
       ELSE [dNote EXCEPT !.id = IF hits # {} THEN localNote.id ELSE dNote.id]

\* the replace merge with the local notes of other titles kept at the end
mergeReplaceUnion(prevNotes, driveNotes, store) ==
    LET Keep(n) == \A i \in DOMAIN driveNotes : driveNotes[i].title # n.title
        merged == [i \in DOMAIN driveNotes |-> mergedEntry(prevNotes, driveNotes[i])]
                      \o FilterSeq(prevNotes, Keep)
    IN [notes |-> merged, store |-> StoredArray(merged)]

(***************************************************************************)
(* The replace merge (the setNotes updater of part_002:70-100): one entry  *)
(* per drive note, and the result overwrites localStorage.                 *)
(***************************************************************************)
mergeReplace(prevNotes, driveNotes, store) ==
    LET merged == [i \in DOMAIN driveNotes |-> mergedEntry(prevNotes, driveNotes[i])]
    IN [notes |-> merged, store |-> StoredArray(merged)]

\* the try/catch of syncDrive: whatever the await throws is logged, not raised
syncDriveCatch(result) == FALSE

\* the merge run whatever the length of driveNotes
syncMergeUnguarded(pol, prevNotes, driveNotes, store) ==
    IF pol = "additive" THEN mergeAdditive(prevNotes, driveNotes, store)
    ELSE mergeReplace(prevNotes, driveNotes, store)

\* syncDrive after the await: nothing happens unless driveNotes.length > 0
syncMerge(pol, prevNotes, driveNotes, store) ==
    IF Len(driveNotes) > 0
    THEN IF pol = "additive" THEN mergeAdditive(prevNotes, driveNotes, store)
         ELSE mergeReplace(prevNotes, driveNotes, store)
    ELSE [notes |-> prevNotes, store |-> store]

----------------------------------------------------------------------------
(* storageService: POST requests *)

\* saveNoteToDrive for one response: a non-OK status returns {status:'error'},
\* a rejected fetch is caught and returns {status:'unknown'}; nothing is thrown
saveNoteToDrive(outcome) ==
    [threw |-> FALSE,
     status |-> CASE outcome = "ok" -> "success"
                  [] outcome = "httpError" -> "error"
                  [] OTHER -> "unknown"]

\* deleteNoteFromDrive and renameNoteInDrive POST {action, ...} and, like
\* saveNoteToDrive, hand every failure back as a value
deleteNoteFromDrive(outcome) ==
    [threw |-> FALSE, status |-> IF outcome = "ok" THEN "deleted" ELSE "error"]

renameNoteInDrive(outcome) ==
    [threw |-> FALSE, status |-> IF outcome = "ok" THEN "renamed" ELSE "error"]

\* try { await request; setSaveStatus('saved') } catch { setSaveStatus('unsaved') }
statusAfterAwait(result) == IF result.threw THEN "unsaved" ELSE "saved"

PostOutcomes == {"ok", "httpError", "networkError"}

\* doPost: the folder after one request, stamped with the server's clock
doPost(files, req, fileId, time) ==
    LET named(t) == {i \in DOMAIN files : files[i].title = t}
        first(S) == CHOOSE i \in S : \A j \in S : i <= j
    IN CASE req.action = "save" ->
              IF named(req.title) # {}
              THEN [files EXCEPT ![first(named(req.title))] =
                       [@ EXCEPT !.content = req.content, !.lastUpdated = time]]
              ELSE Append(files, [id |-> fileId, title |-> req.title,
                                  content |-> req.content, lastUpdated |-> time])
         [] req.action = "delete" ->
              LET Keep(f) == f.title # req.title
              IN FilterSeq(files, Keep)
         [] req.action = "rename" ->
              IF named(req.oldTitle) # {}
              THEN [files EXCEPT ![first(named(req.oldTitle))] =
                       [@ EXCEPT !.title = req.title]]
              ELSE files
         [] OTHER -> files

----------------------------------------------------------------------------
(* App: state after mount *)

NoTimer == [pending |-> FALSE, note |-> Null]
Timer(note) == [pending |-> TRUE, note |-> note]

\* the delay of the debounce timer, 2000 ms, in seconds
DebounceDelay == 2

\* setTimeout(..., 2000) by updateNote(note): a live timer, no time elapsed
Timeout(note) == [note |-> note, elapsed |-> 0]

\* the call below cancelling nothing
clearTimeoutNoop(live, handle) == live

\* if (typingTimeout) clearTimeout(typingTimeout): the timer the state
\* designates is removed from the live timers
clearTimeout(live, handle) ==
    IF ~handle.pending THEN live
    ELSE LET keep == {k \in DOMAIN live : live[k].note # handle.note}
             RECURSIVE Go(_)
             Go(k) == IF k > Len(live) THEN <<>>
                      ELSE (IF k \in keep THEN <<live[k]>> ELSE <<>>) \o Go(k + 1)
         IN Go(1)

Op(op, arg) == [op |-> op, arg |-> arg]


WelcomeId == 0
WelcomeTitle == <<"w">>
WelcomeContent == Open \o <<"k">> \o Close

Policies == {"additive", "replace"}

HasNote(ns, id) == \E i \in DOMAIN ns : ns[i].id = id
NoteById(ns, id) == ns[CHOOSE i \in DOMAIN ns : ns[i].id = id /\ \A j \in 1..(i - 1) : ns[j].id # id]

\* the Graph memo after a render with collection ns
Rendered(ns) ==
    /\ linksHash' = linksHashOf(ns)
    /\ graphData' = graphDataMemo(linksHash, graphData, ns)

PostReq(action, handler, title, content, oldTitle) ==
    [stage |-> "req", action |-> action, handler |-> handler, title |-> title,
     content |-> content, oldTitle |-> oldTitle, outcome |-> Null]

Revisions == {"App", "part_002", "part_003"}

\* useState(false), useState(''), useState(false); no analysis in flight
NoAnalysis == [panelOpen |-> FALSE, loading |-> FALSE, response |-> "", calls |-> <<>>]

\* newHistory.length > 50
HistoryLimit == 50

NoHistoryTimer == [pending |-> FALSE, value |-> <<>>, history |-> <<>>, historyIndex |-> 0]

\* no Editor is rendered (App renders it only when activeNote is found)
NoEditor ==
    [mounted |-> FALSE, history |-> <<>>, historyIndex |-> 0, historyTimeout |-> NoHistoryTimer]

\* useState([note.content]), useState(0), useRef(null)
EditorOf(note) ==
    [mounted |-> TRUE, history |-> <<note.content>>, historyIndex |-> 0,
     historyTimeout |-> NoHistoryTimer]

\* the Editor across a render of App: unmounted with its state and timer
\* dropped when no note is active, mounted on the active note when there was
\* none, kept with its state otherwise (it has no key)
editorAfter(ed, ns, active) ==
    IF ~HasNote(ns, active) THEN NoEditor
    ELSE IF ~ed.mounted THEN EditorOf(NoteById(ns, active))
    ELSE ed

EditorFollows == editor' = editorAfter(editor, notes', activeNoteId')

\* nothing is remembered
NoPast == [watching |-> FALSE]

NoRetitle == [phase |-> "none"]

\* the start of a scenario whose properties look back
Watching == [watching |-> TRUE, retitle |-> NoRetitle, deleted |-> {}, held |-> {}]

(***************************************************************************)
(* The title change remembered across the step the handler `op` took.  A   *)
(* change of title (title input or sidebar rename) is "changed"; a sync    *)
(* started when no request, timer or fetch was pending is "syncing"; that  *)
(* sync completing with a listing is "synced".  A failed request, a failed *)
(* fetch and any other change of the collection by the user end the        *)
(* scenario.                                                               *)
(***************************************************************************)
retitleAfter(r, op) ==
    CASE op.op = "handleTitleInput" ->
             [phase |-> "changed", id |-> op.arg.id, from |-> op.arg.title,
              to |-> NoteById(notes', op.arg.id).title]
      [] op.op = "handleRenameSubmit" ->
             [phase |-> "changed", id |-> op.arg.id, from |-> op.arg.oldTitle,
              to |-> op.arg.newTitle]
      [] op.op \in {"createNote", "handleImport", "handleChange", "handleDeleteNote",
                    "saveToHistory", "handleUndo", "handleRedo"} -> NoRetitle
      [] op.op \in {"autosaveDone", "renameDone", "createDone", "importDone", "deleteDone"}
           /\ op.arg # "ok" -> NoRetitle
      [] r.phase = "changed" /\ Len(fetches') > Len(fetches) ->
             IF fetches = <<>> /\ posts = <<>> /\ timeouts = <<>>
             THEN [r EXCEPT !.phase = "syncing"]
             ELSE r
      [] r.phase = "syncing" /\ op.op = "syncDriveDone" ->
             IF op.arg.outcome = "array" /\ Len(op.arg.driveNotes) > 0
             THEN [r EXCEPT !.phase = "synced"]
             ELSE NoRetitle
      [] r.phase = "synced" /\ op.op = "syncDriveDone" -> NoRetitle
      [] OTHER -> r

\* the ids of the notes handleDeleteNote was called with
deletedAfter(ids, op) ==
    IF op.op = "handleDeleteNote" THEN ids \cup {op.arg.id} ELSE ids

\* the contents each note had in the states before the step, as <<id, content>>
heldAfter(pairs) == pairs \cup {<<notes[i].id, notes[i].content>> : i \in DOMAIN notes}

pastAfter(p, op) ==
    IF ~p.watching THEN p
    ELSE [p EXCEPT !.retitle = retitleAfter(p.retitle, op),
                   !.deleted = deletedAfter(p.deleted, op),
                   !.held = heldAfter(p.held)]

PastFollows == past' = pastAfter(past, lastOp')

\* the function below without its shift()
saveToHistoryUnbounded(ed, hist, index, newContent) ==
    LET currentHistory == SubSeq(hist, 1, index + 1)
        differs == currentHistory = <<>> \/ currentHistory[Len(currentHistory)] # newContent
        newHistory == Append(currentHistory, newContent)
    IN IF differs
       THEN [ed EXCEPT !.history = newHistory, !.historyIndex = Len(newHistory) - 1]
       ELSE ed

\* saveToHistory(newContent) of the render that saw `hist` and `index`
saveToHistory(ed, hist, index, newContent) ==
    LET currentHistory == SubSeq(hist, 1, index + 1)
        differs == currentHistory = <<>> \/ currentHistory[Len(currentHistory)] # newContent
        appended == Append(currentHistory, newContent)
        newHistory == IF Len(appended) > HistoryLimit THEN Tail(appended) ELSE appended
    IN IF differs
       THEN [ed EXCEPT !.history = newHistory, !.historyIndex = Len(newHistory) - 1]
       ELSE ed

\* the merge each revision's syncDrive runs
policyOf(rev) == IF rev = "App" THEN "additive" ELSE "replace"

\* navigateToNote's setHistory(prev => [...prev, activeNoteId]), done when
\* activeNoteId && activeNoteId !== id
historyAfter(hist, active, id) ==
    IF active # NoId /\ active # id THEN Append(hist, active) ELSE hist

(***************************************************************************)
(* The mount effect with stored value `store`: the stored notes are        *)
(* loaded; the additive revision stores and shows a welcome note when      *)
(* there is none; the first stored note becomes active; syncDrive() is     *)
(* called, so a GET is in flight and isSyncing is true.                    *)
(***************************************************************************)
MountedWatching(rev, store, files, time, ed, watched) ==
    LET pol == policyOf(rev)
        loadedNotes == getNotesFromLocal(store)
        welcome == Note(WelcomeId, WelcomeTitle, WelcomeContent, time)
        useWelcome == Len(loadedNotes) = 0 /\ pol = "additive"
        ns == IF useWelcome THEN <<welcome>> ELSE loadedNotes
    IN /\ policy = pol
       /\ revision = rev
       /\ history = <<>>
       /\ notes = ns
       /\ localStore = IF useWelcome THEN saveNoteToLocal(store, welcome) ELSE store
       /\ drive = files
       /\ fetches = <<[stage |-> "req", outcome |-> Null, body |-> <<>>]>>
       /\ posts = <<>>
       /\ typingTimeout = NoTimer
       /\ timeouts = <<>>
       /\ saveStatus = "saved"
       /\ isSyncing = TRUE
       /\ activeNoteId = IF Len(ns) > 0 THEN ns[1].id ELSE NoId
       /\ now = time
       /\ nextId = 1
       /\ linksHash = linksHashOf(ns)
       /\ graphData = [nodesData |-> nodesDataOf(ns), linksData |-> linksDataOf(ns)]
       /\ lastSnapshot = <<>>
       /\ editor = IF ed.mounted THEN ed
                   ELSE editorAfter(NoEditor, ns, IF Len(ns) > 0 THEN ns[1].id ELSE NoId)
       /\ ai = NoAnalysis
       /\ past = watched
       /\ lastOp = Op("mount", Null)

MountedEditing(rev, store, files, time, ed) ==
    MountedWatching(rev, store, files, time, ed, NoPast)

MountedAs(rev, store, files, time) == MountedEditing(rev, store, files, time, NoEditor)

\* the mount of the additive App.tsx, or of the replace revision part_002
Mounted(pol, store, files, time) ==
    MountedAs(IF pol = "additive" THEN "App" ELSE "part_002", store, files, time)

----------------------------------------------------------------------------
(* App: handlers *)

MaxFetches == 1
MaxPosts == 1
MaxFiles == 2
MaxId == 3

\* createNote: a new note with a fresh id and a numbered default title,
\* stored, made active and POSTed to the relay
createNote(title) ==
    /\ now < MaxTime
    /\ Len(notes) < MaxNotes
    /\ nextId <= MaxId
    /\ Len(posts) < MaxPosts
    /\ LET newNote == Note(nextId, title, <<>>, now)
           updatedNotes == Append(notes, newNote)
       IN /\ notes' = updatedNotes
          /\ localStore' = saveNoteToLocal(localStore, newNote)
          /\ activeNoteId' = newNote.id
          /\ history' = IF revision = "part_003"
                        THEN historyAfter(history, activeNoteId, newNote.id)
                        ELSE history
          /\ saveStatus' = "saving"
          /\ posts' = Append(posts, PostReq("save", "create", newNote.title, newNote.content, Null))
          /\ Rendered(updatedNotes)
          /\ lastOp' = Op("createNote", newNote.id)
    /\ nextId' = nextId + 1
    /\ now' = now + 1
    /\ lastSnapshot' = <<>>
    /\ UNCHANGED <<ai, policy, revision, drive, fetches, typingTimeout, timeouts, isSyncing>>
    /\ EditorFollows
    /\ PastFollows

\* handleImport for one .md file, from the onload of its FileReader: the
\* note is stored, appended to the collection and posted; the save is not
\* awaited and leaves the indicator alone
handleImport(title, content) ==
    /\ now < MaxTime
    /\ Len(notes) < MaxNotes
    /\ nextId <= MaxId
    /\ Len(posts) < MaxPosts
    /\ LET newNote == Note(nextId, title, content, now)
           updatedNotes == Append(notes, newNote)
       IN /\ localStore' = saveNoteToLocal(localStore, newNote)
          /\ notes' = updatedNotes
          /\ posts' = Append(posts, PostReq("save", "import", newNote.title, newNote.content, Null))
          /\ Rendered(updatedNotes)
          /\ lastOp' = Op("handleImport", newNote.id)
    /\ nextId' = nextId + 1
    /\ now' = now + 1
    /\ lastSnapshot' = <<>>
    /\ UNCHANGED <<ai, policy, revision, history, drive, fetches, typingTimeout, timeouts,
                   saveStatus, isSyncing, activeNoteId>>
    /\ EditorFollows
    /\ PastFollows

\* updateNote: the note replaces the one of its id, is stored, the indicator
\* turns 'unsaved', the pending timer is cleared and a new one is set
updateNote(updatedNote) ==
    LET updatedNotes == [i \in DOMAIN notes |->
                            IF notes[i].id = updatedNote.id THEN updatedNote ELSE notes[i]]
    IN /\ notes' = updatedNotes
       /\ localStore' = saveNoteToLocal(localStore, updatedNote)
       /\ saveStatus' = "unsaved"
       /\ timeouts' = Append(clearTimeout(timeouts, typingTimeout), Timeout(updatedNote))
       /\ typingTimeout' = Timer(updatedNote)
       /\ Rendered(updatedNotes)
       /\ now' = now + 1
       /\ lastSnapshot' = <<>>
       /\ UNCHANGED <<ai, policy, revision, history, drive, fetches, posts, isSyncing, activeNoteId, nextId>>

\* Editor.handleChange on the active note.  App passes no onCreateNote to
\* Editor (App.tsx:876-885), so the auto-create branch does nothing.
handleChange(value) ==
    /\ now < MaxTime
    /\ activeNoteId # NoId
    /\ HasNote(notes, activeNoteId)
    /\ LET note == NoteById(notes, activeNoteId)
       IN /\ value # note.content
          /\ updateNote([note EXCEPT !.content = value, !.lastModified = now])
          /\ editor' = [editor EXCEPT !.historyTimeout =
                            [pending |-> TRUE, value |-> value,
                             history |-> editor.history,
                             historyIndex |-> editor.historyIndex]]
          /\ lastOp' = Op("handleChange", note.id)
          /\ PastFollows

\* the title input of Editor on the active note
handleTitleInput(value) ==
    /\ now < MaxTime
    /\ activeNoteId # NoId
    /\ HasNote(notes, activeNoteId)
    /\ LET note == NoteById(notes, activeNoteId)
       IN /\ value # note.title
          /\ updateNote([note EXCEPT !.title = value, !.lastModified = now])
          /\ UNCHANGED editor
          /\ lastOp' = Op("handleTitleInput", note)
          /\ PastFollows

\* the history timer set by handleChange fires a second later: saveToHistory
\* of the render in which the text was typed
historyTimerFires ==
    /\ editor.mounted
    /\ editor.historyTimeout.pending
    /\ LET t == editor.historyTimeout
       IN /\ editor' = [saveToHistory(editor, t.history, t.historyIndex, t.value)
                            EXCEPT !.historyTimeout = NoHistoryTimer]
          /\ lastOp' = Op("saveToHistory",
                          [currentHistory |-> SubSeq(t.history, 1, t.historyIndex + 1),
                           newContent |-> t.value])
    /\ UNCHANGED <<ai, policy, revision, history, notes, localStore, drive, fetches, posts,
                   typingTimeout, timeouts, saveStatus, isSyncing, activeNoteId, now, nextId,
                   linksHash, graphData, lastSnapshot>>
    /\ PastFollows

\* a structural edit (insertMarkdown, the list continuation on Enter, Tab,
\* selectSuggestion): saveToHistory(newContent) of the current render and
\* onUpdate; the pending history timer is left alone
structuralEdit(newContent) ==
    /\ now < MaxTime
    /\ HasNote(notes, activeNoteId)
    /\ editor.mounted
    /\ LET note == NoteById(notes, activeNoteId)
       IN /\ newContent # note.content
          /\ updateNote([note EXCEPT !.content = newContent, !.lastModified = now])
          /\ editor' = saveToHistory(editor, editor.history, editor.historyIndex, newContent)
          /\ lastOp' = Op("saveToHistory",
                          [currentHistory |-> SubSeq(editor.history, 1, editor.historyIndex + 1),
                           newContent |-> newContent])
          /\ PastFollows

handleUndo ==
    /\ now < MaxTime
    /\ HasNote(notes, activeNoteId)
    /\ editor.mounted
    /\ editor.historyIndex > 0
    /\ LET note == NoteById(notes, activeNoteId)
           newIndex == editor.historyIndex - 1
           previousContent == editor.history[newIndex + 1]
       IN /\ editor' = [editor EXCEPT !.historyIndex = newIndex]
          /\ updateNote([note EXCEPT !.content = previousContent, !.lastModified = now])
          /\ lastOp' = Op("handleUndo", note.id)
          /\ PastFollows

handleRedo ==
    /\ now < MaxTime
    /\ HasNote(notes, activeNoteId)
    /\ editor.mounted
    /\ editor.historyIndex < Len(editor.history) - 1
    /\ LET note == NoteById(notes, activeNoteId)
           newIndex == editor.historyIndex + 1
           nextContent == editor.history[newIndex + 1]
       IN /\ editor' = [editor EXCEPT !.historyIndex = newIndex]
          /\ updateNote([note EXCEPT !.content = nextContent, !.lastModified = now])
          /\ lastOp' = Op("handleRedo", note.id)
          /\ PastFollows

\* the callback of the debounce timer, up to its await
timerFires ==
    /\ Len(posts) < MaxPosts
    /\ \E k \in DOMAIN timeouts :
          /\ timeouts[k].elapsed >= DebounceDelay
          /\ posts' = Append(posts, PostReq("save", "autosave", timeouts[k].note.title,
                                            timeouts[k].note.content, Null))
          /\ timeouts' = SubSeq(timeouts, 1, k - 1) \o SubSeq(timeouts, k + 1, Len(timeouts))
          /\ typingTimeout' = IF typingTimeout.pending /\ typingTimeout.note = timeouts[k].note
                              THEN NoTimer ELSE typingTimeout
          /\ lastOp' = Op("timerFires", timeouts[k])
    /\ saveStatus' = "saving"
    /\ UNCHANGED <<ai, policy, revision, history, notes, localStore, drive, fetches, isSyncing, activeNoteId,
                   now, nextId, linksHash, graphData, lastSnapshot>>
    /\ EditorFollows
    /\ PastFollows

\* a second passes with no timer due
tick ==
    /\ timeouts # <<>>
    /\ \A k \in DOMAIN timeouts : timeouts[k].elapsed < DebounceDelay
    /\ timeouts' = [k \in DOMAIN timeouts |-> [timeouts[k] EXCEPT !.elapsed = @ + 1]]
    /\ UNCHANGED <<ai, policy, revision, history, notes, localStore, drive, fetches, posts,
                   typingTimeout, saveStatus, isSyncing, activeNoteId, now, nextId, linksHash,
                   graphData, lastSnapshot, editor, past, lastOp>>

\* the relay answers a POST, or the request fails on the way
serverPost(outcome) ==
    /\ Len(posts) > 0
    /\ posts[1].stage = "req"
    /\ LET served == doPost(drive, posts[1], nextId, now)
       IN /\ outcome = "ok" => Len(served) <= MaxFiles
          /\ (outcome = "ok" /\ Len(served) > Len(drive)) => nextId <= MaxId
          /\ drive' = IF outcome = "ok" THEN served ELSE drive
          /\ nextId' = IF outcome = "ok" /\ Len(served) > Len(drive) THEN nextId + 1 ELSE nextId
    /\ posts' = [posts EXCEPT ![1] = [@ EXCEPT !.stage = "resp", !.outcome = outcome]]
    /\ lastOp' = Op("request", Null)
    /\ UNCHANGED <<ai, policy, revision, history, notes, localStore, fetches, typingTimeout, timeouts, saveStatus, isSyncing,
                   activeNoteId, now, linksHash, graphData, lastSnapshot>>
    /\ EditorFollows
    /\ PastFollows

\* the handler that awaits the POST resumes
postDone ==
    /\ Len(posts) > 0
    /\ posts[1].stage = "resp"
    /\ LET p == posts[1]
           result == CASE p.action = "save" -> saveNoteToDrive(p.outcome)
                       [] p.action = "delete" -> deleteNoteFromDrive(p.outcome)
                       [] OTHER -> renameNoteInDrive(p.outcome)
       IN /\ saveStatus' = IF p.handler = "import" THEN saveStatus ELSE statusAfterAwait(result)
          /\ lastOp' = Op(p.handler \o "Done", p.outcome)
    /\ posts' = Tail(posts)
    /\ UNCHANGED <<ai, policy, revision, history, notes, localStore, drive, fetches, typingTimeout, timeouts, isSyncing,
                   activeNoteId, now, nextId, linksHash, graphData, lastSnapshot>>
    /\ EditorFollows
    /\ PastFollows

\* the filter below keeping every note
withoutNoteUnfiltered(ns, noteToDelete) == ns

\* notes.filter(n => n.id !== noteToDelete.id)
withoutNote(ns, noteToDelete) ==
    LET Keep(n) == n.id # noteToDelete.id
    IN FilterSeq(ns, Keep)

\* handleDeleteNote up to its await
handleDeleteNote(noteToDelete) ==
    /\ now < MaxTime
    /\ Len(posts) < MaxPosts
    /\ LET remaining == withoutNote(notes, noteToDelete)
       IN /\ notes' = remaining
          /\ localStore' = deleteNoteFromLocal(localStore, noteToDelete.id)
          /\ activeNoteId' = IF activeNoteId = noteToDelete.id
                             THEN (IF Len(remaining) > 0 THEN remaining[1].id ELSE NoId)
                             ELSE activeNoteId
          /\ Rendered(remaining)
    /\ saveStatus' = "saving"
    /\ posts' = Append(posts, PostReq("delete", "delete", noteToDelete.title, <<>>, Null))
    /\ history' = IF revision = "part_003"
                  THEN LET Keep(id) == id # noteToDelete.id IN FilterSeq(history, Keep)
                  ELSE history
    /\ lastOp' = Op("handleDeleteNote", noteToDelete)
    /\ now' = now + 1
    /\ lastSnapshot' = <<>>
    /\ UNCHANGED <<ai, policy, revision, drive, fetches, typingTimeout, timeouts, isSyncing, nextId>>
    /\ EditorFollows
    /\ PastFollows

\* the map below leaving the collection as it was
mapRenamedStale(ns, noteId, updatedNote) == ns

\* notes.map(n => n.id === noteId ? updatedNote : n)
mapRenamed(ns, noteId, updatedNote) ==
    [i \in DOMAIN ns |-> IF ns[i].id = noteId THEN updatedNote ELSE ns[i]]

\* handleRenameSubmit(noteId) with the text typed in the rename field
handleRenameSubmit(noteId, editTitle) ==
    /\ now < MaxTime
    /\ HasNote(notes, noteId)
    /\ trim(editTitle) # <<>>
    /\ editTitle # NoteById(notes, noteId).title
    /\ Len(posts) < MaxPosts
    /\ LET noteToRename == NoteById(notes, noteId)
           oldTitle == noteToRename.title
           newTitle == trim(editTitle)
           updatedNote == [noteToRename EXCEPT !.title = newTitle, !.lastModified = now]
           updatedNotes == mapRenamed(notes, noteId, updatedNote)
       IN /\ notes' = updatedNotes
          /\ localStore' = saveNoteToLocal(localStore, updatedNote)
          /\ posts' = Append(posts, PostReq("rename", "rename", newTitle, <<>>, oldTitle))
          /\ Rendered(updatedNotes)
          /\ lastOp' = Op("handleRenameSubmit",
                          [id |-> noteId, oldTitle |-> oldTitle, newTitle |-> newTitle,
                           prevNotes |-> notes])
    /\ saveStatus' = "saving"
    /\ now' = now + 1
    /\ lastSnapshot' = <<>>
    /\ UNCHANGED <<ai, policy, revision, history, drive, fetches, typingTimeout, timeouts, isSyncing, activeNoteId, nextId>>
    /\ EditorFollows
    /\ PastFollows

\* syncDrive up to its await, with fewer than `limit` runs in flight
syncDriveAmong(limit) ==
    /\ Len(fetches) < limit
    /\ isSyncing' = TRUE
    /\ fetches' = Append(fetches, [stage |-> "req", outcome |-> Null, body |-> <<>>])
    /\ lastOp' = Op("request", Null)
    /\ UNCHANGED <<ai, policy, revision, history, notes, localStore, drive, posts, typingTimeout, timeouts, saveStatus,
                   activeNoteId, now, nextId, linksHash, graphData, lastSnapshot>>
    /\ EditorFollows
    /\ PastFollows

syncDrive == syncDriveAmong(MaxFetches)

\* the relay answers the GET with the folder listing
serverGet ==
    /\ \E k \in DOMAIN fetches :
          /\ fetches[k].stage = "req"
          /\ fetches' = [fetches EXCEPT ![k] =
                            [stage |-> "resp", outcome |-> "array", body |-> doGet(drive)]]
    /\ lastOp' = Op("request", Null)
    /\ UNCHANGED <<ai, policy, revision, history, notes, localStore, drive, posts, typingTimeout, timeouts, saveStatus,
                   isSyncing, activeNoteId, now, nextId, linksHash, graphData, lastSnapshot>>
    /\ EditorFollows
    /\ PastFollows

\* the GET fails: rejected, non-OK status, or a body that is not an array
serverGetFails(outcome) ==
    /\ \E k \in DOMAIN fetches :
          /\ fetches[k].stage = "req"
          /\ fetches' = [fetches EXCEPT ![k] =
                            [stage |-> "resp", outcome |-> outcome, body |-> <<>>]]
    /\ lastOp' = Op("request", Null)
    /\ UNCHANGED <<ai, policy, revision, history, notes, localStore, drive, posts, typingTimeout, timeouts, saveStatus,
                   isSyncing, activeNoteId, now, nextId, linksHash, graphData, lastSnapshot>>
    /\ EditorFollows
    /\ PastFollows

\* syncDrive after its await: the merge, then setIsSyncing(false)
syncDriveDone ==
    \E k \in DOMAIN fetches :
       /\ fetches[k].stage = "resp"
       /\ LET result == fetchNotesFromDrive(fetches[k].outcome, fetches[k].body, nextId, now)
              driveNotes == result.value
              merged == syncMerge(policy, notes, driveNotes, localStore)
          IN /\ notes' = merged.notes
             /\ localStore' = merged.store
             /\ Rendered(merged.notes)
             /\ lastSnapshot' = IF Len(driveNotes) > 0 THEN driveNotes ELSE lastSnapshot
             /\ lastOp' = Op("syncDriveDone",
                             [outcome |-> fetches[k].outcome,
                              driveNotes |-> driveNotes,
                              prevNotes |-> notes,
                              prevStore |-> localStore,
                              repeated |-> Len(driveNotes) > 0 /\ driveNotes = lastSnapshot,
                              raised |-> syncDriveCatch(result)])
       /\ isSyncing' = FALSE
       /\ fetches' = [j \in 1..(Len(fetches) - 1) |->
                         IF j < k THEN fetches[j] ELSE fetches[j + 1]]
       /\ UNCHANGED <<ai, policy, revision, history, drive, posts, typingTimeout, timeouts, saveStatus, activeNoteId,
                      now, nextId>>
       /\ EditorFollows
       /\ PastFollows

----------------------------------------------------------------------------
(* The application: mounted on an empty localStorage, every handler enabled *)


Titles == {<<"a">>, <<"b">>}
Contents == {<<>>, Open \o <<"a">> \o Close}
RenameInputs == {<<"a">>, <<"b", " ">>}

File(id, title, content, lastUpdated) ==
    [id |-> id, title |-> title, content |-> content, lastUpdated |-> lastUpdated]

InitialFolders == {<<>>, <<File(100, <<"a">>, <<>>, 1)>>}

Init ==
    \E pol \in Policies, files \in InitialFolders :
        Mounted(pol, StoredAbsent, files, 0)

Next ==
    \/ \E t \in Titles : createNote(t)
    \/ \E t \in Titles, c \in Contents : handleImport(t, c)
    \/ \E c \in Contents : handleChange(c)
    \/ \E t \in Titles : handleTitleInput(t)
    \/ tick
    \/ timerFires
    \/ \E o \in PostOutcomes : serverPost(o)
    \/ postDone
    \/ \E i \in DOMAIN notes : handleDeleteNote(notes[i])
    \/ \E i \in DOMAIN notes, t \in RenameInputs : handleRenameSubmit(notes[i].id, t)
    \/ syncDrive
    \/ serverGet
    \/ \E o \in FetchFailures : serverGetFails(o)
    \/ syncDriveDone

Spec == Init /\ [][Next]_vars

----------------------------------------------------------------------------
(* The merge on bounded inputs: the application mounted on any stored      *)
(* collection (titles may repeat: createNote of App.tsx:105-119 gives      *)
(* every note the same title, and renames are unchecked) beside any Drive  *)
(* folder (file names may repeat), then syncing again and again.           *)

MaxStamp == 2
MaxMerged == 3

MergeTitles == {<<"a">>, <<"b">>}
MergeContents == {<<"x">>, <<"y">>}

SeqsUpTo(n, S) == UNION {[1..k -> S] : k \in 0..n}

\* stored notes: any title and stamp, the content "x"
NoteShapes == [title : MergeTitles, content : {<<"x">>}, lastModified : 1..MaxStamp]

\* Drive files: any title, content and stamp
FileShapes == [title : MergeTitles, content : MergeContents, lastModified : 1..MaxStamp]

LocalCollections ==
    {[i \in DOMAIN sh |-> Note(i, sh[i].title, sh[i].content, sh[i].lastModified)] :
        sh \in SeqsUpTo(MaxNotes, NoteShapes)}

DriveFolders ==
    {[i \in DOMAIN sh |-> File(100 + i, sh[i].title, sh[i].content, sh[i].lastModified)] :
        sh \in SeqsUpTo(MaxFiles, FileShapes)}

\* at most MaxMerged notes on the two sides together
InitMerge ==
    \E pol \in Policies, ns \in LocalCollections, files \in DriveFolders :
        /\ Len(ns) + Len(files) <= MaxMerged
        /\ Mounted(pol, StoredArray(ns), files, MaxStamp)

\* a sync starts when none is in flight
syncAgain == fetches = <<>> /\ syncDrive

NextMerge ==
    \/ syncAgain
    \/ serverGet
    \/ \E outcome \in FetchFailures : serverGetFails(outcome)
    \/ syncDriveDone

SpecMerge == InitMerge /\ [][NextMerge]_vars

----------------------------------------------------------------------------
(* Links on bounded inputs: the application mounted on stored notes with   *)
(* empty contents; the user types into the active note and deletes a note, *)
(* in either order.                                                        *)

MaxLinkNotes == 2

LinkTitles == {<<"a">>, <<"A">>, <<"a", " ">>}
Chunks == {Open, Close, <<"a">>, <<" ">>}
ChunkStrings == {Concat(cs) : cs \in SeqsUpTo(MaxChunks, Chunks)}

LinkCollections ==
    {[i \in DOMAIN ts |-> Note(i, ts[i], <<>>, 0)] :
        ts \in UNION {[1..k -> LinkTitles] : k \in 1..MaxLinkNotes}}

InitLinks ==
    \E ns \in LinkCollections : Mounted("additive", StoredArray(ns), <<>>, 0)

\* the user types a text into the active note, once
typeContent ==
    /\ ~typingTimeout.pending
    /\ \E c \in ChunkStrings : handleChange(c)

\* the user deletes a note, once
deleteOne ==
    /\ posts = <<>>
    /\ \E i \in DOMAIN notes : handleDeleteNote(notes[i])

NextLinks ==
    \/ typeContent
    \/ deleteOne

SpecLinks == InitLinks /\ [][NextLinks]_vars

----------------------------------------------------------------------------
(* Navigation from the editor *)

MaxHistory == 2

\* rawContent.split('|')[0]
beforeBar(t) ==
    LET bars == {i \in DOMAIN t : t[i] = "|"}
    IN IF bars = {} THEN t
       ELSE SubSeq(t, 1, (CHOOSE i \in bars : \A j \in bars : i <= j) - 1)

(***************************************************************************)
(* handleEditorClick / checkLinkAtCursor: lastOpen is the last "[[" that   *)
(* starts at or before the cursor (0-based), nextClose the first "]]" at   *)
(* or after lastOpen; the link counts when the cursor is not beyond        *)
(* nextClose + 2.  Gives the text between the brackets and the title       *)
(* passed on, which is the part before '|', trimmed.                       *)
(***************************************************************************)
linkAtCursor(text, cursor) ==
    LET opens == {i \in DOMAIN text : IsAt(text, i, Open) /\ i - 1 <= cursor}
        lastOpen == CHOOSE i \in opens : \A j \in opens : j <= i
        closes == {j \in DOMAIN text : IsAt(text, j, Close) /\ j >= lastOpen}
        nextClose == CHOOSE j \in closes : \A k \in closes : j <= k
    IN IF opens = {} \/ closes = {} THEN [found |-> FALSE, raw |-> <<>>, title |-> <<>>]
       ELSE LET raw == SubSeq(text, lastOpen + 2, nextClose - 1)
            IN [found |-> cursor <= (nextClose - 1) + 2 /\ trim(beforeBar(raw)) # <<>>,
                raw |-> raw,
                title |-> trim(beforeBar(raw))]

\* A title handed to a parameter that expects an id.  Ids are UUIDs, Drive
\* file ids or 'welcome-note', and no title of the alphabet spells one: the
\* string is an id that no note has, here a number below NoId.
stringAsId(t) == 0 - (2 + Len(t))

\* handleNavigate(title): the first note of that title ignoring case, or an
\* alert and no change.  part_003 goes through navigateToNote.
handleNavigate(title) ==
    LET hits == {i \in DOMAIN notes : toLowerCase(notes[i].title) = toLowerCase(title)}
        targetNote == notes[CHOOSE i \in hits : \A j \in hits : i <= j]
    IN IF hits = {}
       THEN UNCHANGED <<activeNoteId, history>>
       ELSE /\ activeNoteId' = targetNote.id
            /\ history' = IF revision = "part_003"
                          THEN historyAfter(history, activeNoteId, targetNote.id)
                          ELSE history

\* part_003's navigateToNote(id)
navigateToNote(id) ==
    /\ history' = historyAfter(history, activeNoteId, id)
    /\ activeNoteId' = id

\* the onNavigate prop of Editor called with a title: App.tsx and part_002
\* pass handleNavigate, part_003 passes navigateToNote (part_003:496)
onNavigate(title) ==
    IF revision = "part_003" THEN navigateToNote(stringAsId(title))
    ELSE handleNavigate(title)

NavFrame ==
    /\ UNCHANGED <<ai, policy, revision, notes, localStore, drive, fetches, posts, typingTimeout, timeouts,
                   saveStatus, isSyncing, now, nextId, linksHash, graphData, lastSnapshot>>
    /\ EditorFollows
    /\ PastFollows

\* a click into the textarea at `cursor`, or the 'go to' button on the link
\* under the cursor
handleEditorClick(cursor) ==
    /\ HasNote(notes, activeNoteId)
    /\ Len(history) < MaxHistory
    /\ LET note == NoteById(notes, activeNoteId)
           link == linkAtCursor(note.content, cursor)
       IN /\ cursor <= Len(note.content)
          /\ link.found
          /\ onNavigate(link.title)
          /\ lastOp' = Op("onNavigate", [T |-> link.raw, prevActive |-> activeNoteId])
    /\ NavFrame

\* a click on the k-th link button of the preview: data-link is the trimmed
\* capture
previewClick(k) ==
    /\ HasNote(notes, activeNoteId)
    /\ Len(history) < MaxHistory
    /\ LET caps == WikiCaptures(NoteById(notes, activeNoteId).content)
       IN /\ k \in DOMAIN caps
          /\ trim(caps[k]) # <<>>
          /\ onNavigate(trim(caps[k]))
          /\ lastOp' = Op("onNavigate", [T |-> caps[k], prevActive |-> activeNoteId])
    /\ NavFrame

\* a click on an entry of the backlink list
backlinkClick(i) ==
    /\ HasNote(notes, activeNoteId)
    /\ Len(history) < MaxHistory
    /\ i \in backlinks(notes, NoteById(notes, activeNoteId))
    /\ onNavigate(notes[i].title)
    /\ lastOp' = Op("onNavigate", [T |-> notes[i].title, prevActive |-> activeNoteId])
    /\ NavFrame

\* a click on a note of the sidebar
selectNote(i) ==
    /\ i \in DOMAIN notes
    /\ Len(history) < MaxHistory
    /\ IF revision = "part_003" THEN navigateToNote(notes[i].id)
       ELSE activeNoteId' = notes[i].id /\ UNCHANGED history
    /\ lastOp' = Op("selectNote", notes[i].id)
    /\ NavFrame

NavContents == {<<>>, Open \o <<"a">> \o Close, Open \o <<"A", " ">> \o Close,
                Open \o <<"b">> \o Close}

NavCollections ==
    {[i \in DOMAIN sh |-> Note(i, sh[i].title, sh[i].content, 0)] :
        sh \in UNION {[1..k -> [title : LinkTitles, content : NavContents]] :
                         k \in 1..MaxLinkNotes}}

InitNav ==
    \E rev \in Revisions, ns \in NavCollections : MountedAs(rev, StoredArray(ns), <<>>, 0)

NextNav ==
    \/ \E cursor \in 0..(Len(Open) + Len(Close) + 2) : handleEditorClick(cursor)
    \/ \E k \in 1..MaxLinkNotes : previewClick(k)
    \/ \E i \in DOMAIN notes : backlinkClick(i)
    \/ \E i \in DOMAIN notes : selectNote(i)

SpecNav == InitNav /\ [][NextNav]_vars

----------------------------------------------------------------------------
(* storageService called on its own, from each kind of stored value *)

MaxStoredId == 3

StoredNotes == {Note(id, t, <<>>, 0) : id \in 1..MaxStoredId, t \in Titles}

\* the state of App's useState initialisers, before the mount effect
Unmounted(store) ==
    /\ policy = "additive"
    /\ revision = "App"
    /\ history = <<>>
    /\ notes = <<>>
    /\ localStore = store
    /\ drive = <<>>
    /\ fetches = <<>>
    /\ posts = <<>>
    /\ typingTimeout = NoTimer
    /\ timeouts = <<>>
    /\ saveStatus = "saved"
    /\ isSyncing = FALSE
    /\ activeNoteId = NoId
    /\ now = 0
    /\ nextId = 1
    /\ linksHash = linksHashOf(<<>>)
    /\ graphData = [nodesData |-> nodesDataOf(<<>>), linksData |-> linksDataOf(<<>>)]
    /\ lastSnapshot = <<>>
    /\ editor = NoEditor
    /\ ai = NoAnalysis
    /\ past = NoPast
    /\ lastOp = Op("construct", Null)

StoreFrame ==
    UNCHANGED <<ai, policy, revision, history, notes, drive, fetches, posts, typingTimeout, timeouts,
                saveStatus, isSyncing, activeNoteId, now, nextId, linksHash, graphData,
                lastSnapshot, editor, past>>

callGetNotesFromLocal ==
    /\ lastOp' = Op("getNotesFromLocal",
                    [prevStore |-> localStore,
                     isArray |-> returnsArray(localStore),
                     returned |-> getNotesFromLocal(localStore)])
    /\ UNCHANGED localStore
    /\ StoreFrame

callSaveNoteToLocal(note) ==
    /\ localStore' = saveNoteToLocal(localStore, note)
    /\ lastOp' = Op("saveNoteToLocal",
                    [prevStore |-> localStore, note |-> note, id |-> note.id,
                     threw |-> throwsTypeError(localStore)])
    /\ StoreFrame

callDeleteNoteFromLocal(id) ==
    /\ localStore' = deleteNoteFromLocal(localStore, id)
    /\ lastOp' = Op("deleteNoteFromLocal",
                    [prevStore |-> localStore, note |-> Null, id |-> id,
                     threw |-> throwsTypeError(localStore)])
    /\ StoreFrame

InitStore ==
    \E store \in {StoredAbsent, StoredArray(<<>>)} \cup {StoredText(k) : k \in CorruptKinds} :
        Unmounted(store)

NextStore ==
    \/ callGetNotesFromLocal
    \/ \E note \in StoredNotes : callSaveNoteToLocal(note)
    \/ \E id \in 1..MaxStoredId : callDeleteNoteFromLocal(id)

SpecStore == InitStore /\ [][NextStore]_vars

----------------------------------------------------------------------------
(* The debounced auto-save: edits of the welcome note, seconds passing, the *)
(* timer firing and the relay serving the save                              *)

InitDebounce == Mounted("additive", StoredAbsent, <<>>, 0)

NextDebounce ==
    \/ \E c \in Contents : handleChange(c)
    \/ \E t \in Titles : handleTitleInput(t)
    \/ tick
    \/ timerFires
    \/ \E o \in PostOutcomes : serverPost(o)
    \/ postDone

SpecDebounce == InitDebounce /\ [][NextDebounce]_vars

----------------------------------------------------------------------------
(* geminiService and handleAnalyze *)

MaxAnalyses == 2

\* ai.models.generateContent: a response with text, a response without, or
\* a rejection
GenerateOutcomes == {"text", "empty", "throws"}

\* the function below without its catch block
analyzeNoteUncaught(outcome) ==
    CASE outcome = "text" -> [threw |-> FALSE, value |-> "response.text"]
      [] outcome = "empty" -> [threw |-> FALSE, value |-> "analysis fallback"]
      [] OTHER -> [threw |-> TRUE, value |-> ""]

\* analyzeNote: response.text, the fallback when it is falsy, the error text
\* from the catch block
analyzeNote(outcome) ==
    CASE outcome = "text" -> [threw |-> FALSE, value |-> "response.text"]
      [] outcome = "empty" -> [threw |-> FALSE, value |-> "analysis fallback"]
      [] OTHER -> [threw |-> FALSE, value |-> "analysis error text"]

chatWithBrain(outcome) ==
    CASE outcome = "text" -> [threw |-> FALSE, value |-> "response.text"]
      [] outcome = "empty" -> [threw |-> FALSE, value |-> "chat fallback"]
      [] OTHER -> [threw |-> FALSE, value |-> "chat error text"]

AiFrame ==
    /\ UNCHANGED <<policy, revision, history, notes, localStore, drive, fetches, posts,
                   typingTimeout, timeouts, saveStatus, isSyncing, activeNoteId, now, nextId,
                   linksHash, graphData, lastSnapshot>>
    /\ EditorFollows
    /\ PastFollows

\* handleAnalyze up to its await (the button of the editor, on the active note)
handleAnalyze ==
    /\ HasNote(notes, activeNoteId)
    /\ Len(ai.calls) < MaxAnalyses
    /\ ai' = [ai EXCEPT !.panelOpen = TRUE, !.loading = TRUE,
                        !.calls = Append(@, [stage |-> "req", outcome |-> Null])]
    /\ lastOp' = Op("handleAnalyze", activeNoteId)
    /\ AiFrame

\* the third party answers one of the requests in flight
generateContent(outcome) ==
    /\ \E k \in DOMAIN ai.calls :
          /\ ai.calls[k].stage = "req"
          /\ ai' = [ai EXCEPT !.calls[k] = [stage |-> "resp", outcome |-> outcome]]
    /\ lastOp' = Op("request", Null)
    /\ AiFrame

\* handleAnalyze after its await: the lines after the await run when
\* analyzeNote returned, and are skipped when it threw
handleAnalyzeDone ==
    /\ \E k \in DOMAIN ai.calls :
          /\ ai.calls[k].stage = "resp"
          /\ LET result == analyzeNote(ai.calls[k].outcome)
                 rest == SubSeq(ai.calls, 1, k - 1) \o SubSeq(ai.calls, k + 1, Len(ai.calls))
             IN /\ ai' = IF result.threw THEN [ai EXCEPT !.calls = rest]
                         ELSE [ai EXCEPT !.response = result.value, !.loading = FALSE,
                                         !.calls = rest]
                /\ lastOp' = Op("handleAnalyzeDone",
                                [outcome |-> ai.calls[k].outcome, result |-> result])
    /\ AiFrame

\* chatWithBrain called for one outcome of the third party (no component
\* calls it)
callChatWithBrain(outcome) ==
    /\ lastOp' = Op("chatWithBrain", [outcome |-> outcome, result |-> chatWithBrain(outcome)])
    /\ UNCHANGED ai
    /\ AiFrame

NextAi ==
    \/ handleAnalyze
    \/ \E outcome \in GenerateOutcomes : generateContent(outcome)
    \/ handleAnalyzeDone
    \/ \E outcome \in GenerateOutcomes : callChatWithBrain(outcome)

SpecAi == Init /\ [][NextAi]_vars

----------------------------------------------------------------------------
(* The undo history of the editor *)

EditContents == {<<>>, <<"x">>}

\* the lengths the history starts with: fresh, short, one below the limit
\* and full
EditLengths == {1, 2, HistoryLimit - 1, HistoryLimit}

\* a history built by typing `first` and the other text in turn
TypedInTurn(first, len) ==
    [i \in 1..len |-> IF i % 2 = 1 THEN first ELSE CHOOSE c \in EditContents : c # first]

\* one note open in the editor, after typing and undoing
InitEditor ==
    \E first \in EditContents, len \in EditLengths :
        \E index \in 0..(len - 1) :
            LET hist == TypedInTurn(first, len)
                note == Note(1, <<"a">>, hist[index + 1], 0)
            IN MountedEditing("App", StoredArray(<<note>>), <<>>, 0,
                              [mounted |-> TRUE, history |-> hist, historyIndex |-> index,
                               historyTimeout |-> NoHistoryTimer])

NextEditor ==
    \/ \E c \in EditContents : handleChange(c)
    \/ historyTimerFires
    \/ \E c \in EditContents : structuralEdit(c)
    \/ handleUndo
    \/ handleRedo

SpecEditor == InitEditor /\ [][NextEditor]_vars

----------------------------------------------------------------------------
(* Renaming in the sidebar *)

MaxRenameNotes == 3

RenameTitles == {<<"A">>, <<"b">>, <<"a", " ">>, <<" ">>}

NoteTitles == {<<"a">>, <<"c">>}

RenameContents == {<<>>, Open \o <<"a">> \o Close, Open \o <<"b">> \o Close}

RenameCollections ==
    {[i \in DOMAIN sh |-> Note(i, sh[i].title, sh[i].content, 0)] :
        sh \in UNION {[1..k -> [title : NoteTitles, content : RenameContents]] :
                         k \in 1..MaxRenameNotes}}

InitRename ==
    \E ns \in RenameCollections : MountedAs("App", StoredArray(ns), <<>>, 0)

\* the user renames a note in the sidebar, once
renameOne ==
    /\ posts = <<>>
    /\ \E i \in DOMAIN notes, t \in RenameTitles : handleRenameSubmit(notes[i].id, t)

\* the user opens a note before renaming
openNote ==
    /\ lastOp.op = "mount"
    /\ \E i \in DOMAIN notes : selectNote(i)

NextRename ==
    \/ openNote
    \/ renameOne

SpecRename == InitRename /\ [][NextRename]_vars

----------------------------------------------------------------------------
(* A title changed once: one note that has its file in the folder is       *)
(* retitled in the editor or in the sidebar, the requests are served and   *)
(* the folder is synced                                                    *)

InitRetitle ==
    \E rev \in {"App", "part_002"} :
        MountedWatching(rev, StoredArray(<<Note(1, <<"a">>, <<>>, 0)>>),
                        <<File(100, <<"a">>, <<>>, 0)>>, 0, NoEditor, Watching)

\* the title is changed when none was changed before and the sync of the
\* mount is over
retitleOne ==
    /\ past.retitle.phase = "none"
    /\ fetches = <<>>
    /\ \/ handleTitleInput(<<"b">>)
       \/ \E i \in DOMAIN notes : handleRenameSubmit(notes[i].id, <<"b">>)

NextRetitle ==
    \/ retitleOne
    \/ tick
    \/ timerFires
    \/ \E o \in PostOutcomes : serverPost(o)
    \/ postDone
    \/ syncAgain
    \/ serverGet
    \/ \E o \in FetchFailures : serverGetFails(o)
    \/ syncDriveDone

SpecRetitle == InitRetitle /\ [][NextRetitle]_vars

----------------------------------------------------------------------------
(* Deleting beside the sync: the application mounted on an empty           *)
(* localStorage beside a folder of one file; notes are deleted while syncs *)
(* and the delete requests are in flight                                   *)

InitDelete ==
    \E rev \in Revisions :
        MountedWatching(rev, StoredAbsent, <<File(100, <<"a">>, <<>>, 1)>>, 0, NoEditor, Watching)

NextDelete ==
    \/ deleteOne
    \/ \E o \in PostOutcomes : serverPost(o)
    \/ postDone
    \/ syncAgain
    \/ serverGet
    \/ \E o \in FetchFailures : serverGetFails(o)
    \/ syncDriveDone

SpecDelete == InitDelete /\ [][NextDelete]_vars

----------------------------------------------------------------------------
(* Two notes edited in turn: the user types into the active note, opens    *)
(* the other one in the sidebar and types there, while the seconds pass,   *)
(* the debounce timers fire and the relay serves the saves.  Time passes,  *)
(* a due timer runs, and a request is answered and resumed: these steps    *)
(* are taken whenever they stay possible.                                  *)

InitSwitch ==
    MountedAs("App", StoredArray(<<Note(1, <<"a">>, <<>>, 0), Note(2, <<"b">>, <<>>, 0)>>), <<>>, 0)

\* the user opens the other note in the sidebar
openOther == \E i \in DOMAIN notes : notes[i].id # activeNoteId /\ selectNote(i)

NextSwitch ==
    \/ \E c \in EditContents : handleChange(c)
    \/ openOther
    \/ tick
    \/ timerFires
    \/ \E o \in PostOutcomes : serverPost(o)
    \/ postDone

SpecSwitch ==
    /\ InitSwitch
    /\ [][NextSwitch]_vars
    /\ WF_vars(tick)
    /\ WF_vars(timerFires)
    /\ WF_vars(\E o \in PostOutcomes : serverPost(o))
    /\ WF_vars(postDone)

----------------------------------------------------------------------------
(* Undo and redo across notes: two notes of different contents; the user   *)
(* types, the history timer fires, the user opens the other note and uses  *)
(* undo and redo                                                           *)

\* the first note is open, with contents typed into it before (the second
\* of them undone or not), beside a second note of another content
InitUndo ==
    \E len \in 1..2 : \E index \in 0..(len - 1) :
        LET hist == TypedInTurn(<<>>, len)
            UndoNotes == <<Note(1, <<"a">>, hist[index + 1], 0), Note(2, <<"b">>, <<"y">>, 0)>>
        IN MountedWatching("App", StoredArray(UndoNotes), <<>>, 0,
                           [mounted |-> TRUE, history |-> hist, historyIndex |-> index,
                            historyTimeout |-> NoHistoryTimer],
                           [Watching EXCEPT !.held = {<<1, hist[i]>> : i \in 1..len}])

NextUndo ==
    \/ \E c \in EditContents : handleChange(c)
    \/ historyTimerFires
    \/ \E c \in EditContents : structuralEdit(c)
    \/ openOther
    \/ handleUndo
    \/ handleRedo

SpecUndo == InitUndo /\ [][NextUndo]_vars

----------------------------------------------------------------------------
(* The back button of part_003 *)

\* the depth of calls the engine's stack allows
MaxCallStack == 3

(***************************************************************************)
(* handleBack() of one render (part_003:129-144).  `history`, `notes` and  *)
(* `activeNoteId` are the values that render closed over: setHistory does  *)
(* not change them, so the recursive call pops the same entry again.  A    *)
(* call that finds the note returns; one that does not calls itself until  *)
(* the stack is exhausted, which raises a RangeError out of the click      *)
(* handler.  The state updates queued before are applied: the history      *)
(* without its last entry.  (`if (prevId)` is true, ids being non-empty.)  *)
(***************************************************************************)
handleBackIn(hist, ns, active) ==
    LET RECURSIVE Call(_)
        Call(depth) ==
            IF Len(hist) = 0 THEN [threw |-> FALSE, history |-> hist, active |-> active]
            ELSE LET newHistory == SubSeq(hist, 1, Len(hist) - 1)
                     prevId == hist[Len(hist)]
                 IN IF HasNote(ns, prevId)
                    THEN [threw |-> FALSE, history |-> newHistory, active |-> prevId]
                    ELSE IF depth >= MaxCallStack
                         THEN [threw |-> TRUE, history |-> newHistory, active |-> active]
                         ELSE Call(depth + 1)
    IN Call(0)

\* a click on the back button, shown when the history is not empty
handleBack ==
    /\ revision = "part_003"
    /\ history # <<>>
    /\ LET result == handleBackIn(history, notes, activeNoteId)
       IN /\ history' = result.history
          /\ activeNoteId' = result.active
          /\ lastOp' = Op("handleBack",
                          [prevHistory |-> history, prevActive |-> activeNoteId,
                           threw |-> result.threw])
    /\ NavFrame

\* two notes of different titles, the first with a link
BackCollections ==
    {ns \in NavCollections :
        Len(ns) = 2 /\ ns[1].title = <<"a">> /\ ns[2].title # <<"a">> /\ ns[1].content # <<>>}

\* part_003 mounted on stored notes that link to each other, beside a folder
InitBack ==
    \E ns \in BackCollections, files \in InitialFolders :
        MountedAs("part_003", StoredArray(ns), files, 0)

NextBack ==
    \/ \E cursor \in 0..(Len(Open) + Len(Close) + 2) : handleEditorClick(cursor)
    \/ openOther
    \/ handleBack
    \/ deleteOne
    \/ serverGet
    \/ syncDriveDone

SpecBack == InitBack /\ [][NextBack]_vars

----------------------------------------------------------------------------
(* Overlapping syncs: the sync of the mount, and the syncs the polling     *)
(* interval, the handlers and the settings dialog start while it is in     *)
(* flight                                                                  *)

MaxOverlap == 2

InitOverlap ==
    \E rev \in Revisions, files \in InitialFolders : MountedAs(rev, StoredAbsent, files, 0)

NextOverlap ==
    \/ syncDriveAmong(MaxOverlap)
    \/ serverGet
    \/ \E o \in FetchFailures : serverGetFails(o)
    \/ syncDriveDone

SpecOverlap == InitOverlap /\ [][NextOverlap]_vars

----------------------------------------------------------------------------
(* Properties of the sync merge *)

Elems(seq) == {seq[i] : i \in DOMAIN seq}
WithTitle(seq, t) == {i \in DOMAIN seq : seq[i].title = t}
UniqueTitle(seq, t) == Cardinality(WithTitle(seq, t)) = 1

\* a merge of a non-empty listing has just run
Merged == lastOp.op = "syncDriveDone" /\ Len(lastOp.arg.driveNotes) > 0

\* C1 as stated: after a merge, for every local note L and drive note R of
\* one title with R newer than L, the collection has an entry of that title
\* and every such entry has R's content, R's lastModified and L's id.
C1_AsStated ==
    Merged =>
        \A L \in Elems(lastOp.arg.prevNotes), R \in Elems(lastOp.arg.driveNotes) :
            (L.title = R.title /\ R.lastModified > L.lastModified) =>
                /\ WithTitle(notes, R.title) # {}
                /\ \A i \in WithTitle(notes, R.title) :
                      /\ notes[i].content = R.content
                      /\ notes[i].lastModified = R.lastModified
                      /\ notes[i].id = L.id

\* C1 amended: the same when L is the only local note and R the only drive
\* note of that title.
C1_NewerDriveNoteWins ==
    Merged =>
        \A L \in Elems(lastOp.arg.prevNotes), R \in Elems(lastOp.arg.driveNotes) :
            (/\ L.title = R.title
             /\ R.lastModified > L.lastModified
             /\ UniqueTitle(lastOp.arg.prevNotes, R.title)
             /\ UniqueTitle(lastOp.arg.driveNotes, R.title)) =>
                /\ WithTitle(notes, R.title) # {}
                /\ \A i \in WithTitle(notes, R.title) :
                      /\ notes[i].content = R.content
                      /\ notes[i].lastModified = R.lastModified
                      /\ notes[i].id = L.id

C1_Witness ==
    /\ Merged
    /\ \E L \in Elems(lastOp.arg.prevNotes), R \in Elems(lastOp.arg.driveNotes) :
          /\ L.title = R.title
          /\ R.lastModified > L.lastModified
          /\ R.content # L.content
          /\ R.id # L.id
          /\ UniqueTitle(lastOp.arg.prevNotes, R.title)
          /\ UniqueTitle(lastOp.arg.driveNotes, R.title)
          /\ \E i \in DOMAIN notes : notes[i] = [R EXCEPT !.id = L.id]

C3_AdditiveKeepsEveryId ==
    (lastOp.op = "syncDriveDone" /\ policy = "additive") =>
        \A L \in Elems(lastOp.arg.prevNotes) : \E i \in DOMAIN notes : notes[i].id = L.id

\* C5: a snapshot merged a second time in succession leaves the collection
\* as the first merge left it.
C5_MergeIdempotent ==
    (lastOp.op = "syncDriveDone" /\ lastOp.arg.repeated) => notes = lastOp.arg.prevNotes

\* C6: after a replace merge of a non-empty listing the collection has one
\* entry per drive note, in listing order and under the drive note's title,
\* hence no note of a title the listing lacks, and localStorage holds that
\* same list.
C6_ReplaceFollowsListing ==
    (Merged /\ policy = "replace") =>
        /\ Len(notes) = Len(lastOp.arg.driveNotes)
        /\ \A i \in DOMAIN notes : notes[i].title = lastOp.arg.driveNotes[i].title
        /\ \A i \in DOMAIN notes :
              \E R \in Elems(lastOp.arg.driveNotes) : notes[i].title = R.title
        /\ localStore = StoredArray(notes)

C6_Witness ==
    /\ Merged
    /\ policy = "replace"
    /\ Len(notes) = 2
    /\ \E L \in Elems(lastOp.arg.prevNotes) :
          \A R \in Elems(lastOp.arg.driveNotes) : R.title # L.title
    /\ localStore # lastOp.arg.prevStore

----------------------------------------------------------------------------
(* Properties of the running application *)

\* C4: when the fetch fails (network error, non-OK status, a body that is
\* not an array) or returns an empty array, syncDrive leaves the collection
\* and localStorage as they were, raises nothing, and isSyncing is false
\* again.
C4_FailedFetchChangesNothing ==
    (/\ lastOp.op = "syncDriveDone"
     /\ (lastOp.arg.outcome \in FetchFailures \/ Len(lastOp.arg.driveNotes) = 0)) =>
        /\ notes = lastOp.arg.prevNotes
        /\ localStore = lastOp.arg.prevStore
        /\ ~lastOp.arg.raised
        /\ ~isSyncing

C4_Witness ==
    /\ lastOp.op = "syncDriveDone"
    /\ lastOp.arg.outcome \in FetchFailures
    /\ policy = "replace"
    /\ Len(notes) > 0
    /\ localStore # StoredAbsent
    /\ ~isSyncing

\* C7: when the debounced save of an edited note has failed (non-OK status
\* or network error) the save indicator ends the attempt in 'unsaved', not
\* in 'saved'.
C7_FailedSaveShowsUnsaved ==
    (lastOp.op = "autosaveDone" /\ lastOp.arg # "ok") => saveStatus = "unsaved"

\* C9: the graphData handed to the simulation always has the current notes'
\* ids and titles as nodes and the currently extracted links as edges.
C9_GraphDataCurrent ==
    /\ graphData.nodesData = nodesDataOf(notes)
    /\ graphData.linksData = linksDataOf(notes)

----------------------------------------------------------------------------
(* Properties of the links *)

HasEdge(ns, N, M) ==
    \E k \in DOMAIN linksDataOf(ns) :
        linksDataOf(ns)[k] = [source |-> N.id, target |-> M.id]

\* N.content contains the text [[M.title]], compared case-insensitively
Mentions(N, M) ==
    includes(toLowerCase(N.content), toLowerCase(Open \o M.title \o Close))

DistinctTitles(ns) ==
    \A i, j \in DOMAIN ns : i # j => ns[i].title # ns[j].title

DistinctTitlesIgnoringCase(ns) ==
    \A i, j \in DOMAIN ns : i # j => toLowerCase(ns[i].title) # toLowerCase(ns[j].title)

BracketFree(t) == \A i \in DOMAIN t : t[i] \notin {"[", "]"}

\* no '[' stands between a "[[" and the first "]]" after it
NoNestedOpen(s) ==
    \A i, k \in DOMAIN s :
        (/\ IsAt(s, i, Open)
         /\ k >= i + 2
         /\ s[k] = "["
         /\ \E j \in DOMAIN s : j > k /\ IsAt(s, j, Close)) =>
            \E j \in (i + 2)..(k - 1) : IsAt(s, j, Close)

\* C8 as stated: when the titles are pairwise distinct, the link list has
\* an edge from N to M exactly when N.content contains [[M.title]] compared
\* case-insensitively.
C8_AsStated ==
    DistinctTitles(notes) =>
        \A N, M \in Elems(notes) : HasEdge(notes, N, M) <=> Mentions(N, M)

\* C8 amended: the same when the titles are pairwise distinct ignoring
\* letter case and free of brackets, for every source note N whose content
\* has no '[' between a "[[" and the first "]]" after it.
C8_EdgeIffMention ==
    (DistinctTitlesIgnoringCase(notes) /\ \A M \in Elems(notes) : BracketFree(M.title)) =>
        \A N, M \in Elems(notes) :
            NoNestedOpen(N.content) => (HasEdge(notes, N, M) <=> Mentions(N, M))

C8_Witness ==
    /\ lastOp.op = "handleChange"
    /\ Len(notes) = 2
    /\ DistinctTitlesIgnoringCase(notes)
    /\ \E N, M \in Elems(notes) :
          /\ N # M
          /\ NoNestedOpen(N.content)
          /\ Mentions(N, M)
          /\ ~includes(N.content, Open \o M.title \o Close)
          /\ HasEdge(notes, N, M)

\* a [[X.title]] reference, whatever its letter case
RefersTo(token, X) == toLowerCase(token.rawTitle) = toLowerCase(X.title)

Deleted == lastOp.op = "handleDeleteNote"

NoEdgeOf(X) ==
    \A k \in DOMAIN linksDataOf(notes) :
        linksDataOf(notes)[k].source # X.id /\ linksDataOf(notes)[k].target # X.id

RefsUnresolved(X) ==
    \A N \in Elems(notes) :
        \A k \in DOMAIN parseMarkdown(N.content, notes) :
            RefersTo(parseMarkdown(N.content, notes)[k], X) =>
                ~parseMarkdown(N.content, notes)[k].exists

\* C10 as stated: after handleDeleteNote(X) the link list has no edge from
\* or to X's id, and when no other note has X's title case-insensitively
\* every remaining [[X.title]] reference is rendered as unresolved.
C10_AsStated ==
    Deleted =>
        /\ NoEdgeOf(lastOp.arg)
        /\ (\A n \in Elems(notes) : toLowerCase(n.title) # toLowerCase(lastOp.arg.title))
               => RefsUnresolved(lastOp.arg)

\* C10 amended: after handleDeleteNote(X) the link list has no edge from or
\* to X's id, and when no other note's title equals X's title with the
\* surrounding blanks trimmed, case-insensitively, every remaining
\* [[X.title]] reference is rendered as unresolved.
C10_DeletedNoteUnlinked ==
    Deleted =>
        /\ NoEdgeOf(lastOp.arg)
        /\ (\A n \in Elems(notes) :
               toLowerCase(n.title) # toLowerCase(trim(lastOp.arg.title)))
               => RefsUnresolved(lastOp.arg)

C10_Witness ==
    /\ Deleted
    /\ \A n \in Elems(notes) : toLowerCase(n.title) # toLowerCase(trim(lastOp.arg.title))
    /\ \E N \in Elems(notes) :
          \E k \in DOMAIN parseMarkdown(N.content, notes) :
             /\ parseMarkdown(N.content, notes)[k].rawTitle = lastOp.arg.title
             /\ ~parseMarkdown(N.content, notes)[k].exists
    /\ \A n \in Elems(notes) : n.id # lastOp.arg.id

----------------------------------------------------------------------------
(* Properties of the navigation *)

TitleMatches(T) == {i \in DOMAIN notes : toLowerCase(notes[i].title) = toLowerCase(T)}

\* C11: after a navigation through a bracket link [[T]] the active note is
\* a note whose title equals T ignoring case, and when no note has that
\* title the active note id is as it was.
C11_LinkNavigates ==
    lastOp.op = "onNavigate" =>
        IF TitleMatches(lastOp.arg.T) # {}
        THEN \E i \in TitleMatches(lastOp.arg.T) : activeNoteId = notes[i].id
        ELSE activeNoteId = lastOp.arg.prevActive

----------------------------------------------------------------------------
(* Properties of the backlink listing *)

Renamed == lastOp.op = "handleRenameSubmit"

\* the text [[T]] occurs in content, compared case-insensitively
ContainsLink(content, T) ==
    \E p \in DOMAIN content :
        IsAt(toLowerCase(content), p, Open \o toLowerCase(T) \o Close)

\* content has bracket links and each of them is [[T]]
RefersOnlyTo(content, T) ==
    LET caps == WikiCaptures(content)
    IN Len(caps) > 0 /\ \A k \in DOMAIN caps : caps[k] = T

\* the listing shown for the renamed note is the set of other notes whose
\* content contains [[new title]] ignoring case
ListingFollowsNewTitle ==
    LET renamed == NoteById(notes, lastOp.arg.id)
    IN \A i \in DOMAIN notes :
          i \in backlinks(notes, renamed) <=>
              (notes[i].id # lastOp.arg.id /\ ContainsLink(notes[i].content, lastOp.arg.newTitle))

\* C12 as stated: right after a rename A -> B the backlink listing of the
\* renamed note lists exactly the other notes containing [[B]] ignoring
\* case, and no note that refers only to [[A]].
C12_AsStated ==
    Renamed =>
        /\ ListingFollowsNewTitle
        /\ \A i \in DOMAIN notes :
              (notes[i].id # lastOp.arg.id /\ RefersOnlyTo(notes[i].content, lastOp.arg.oldTitle))
                  => i \notin backlinks(notes, NoteById(notes, lastOp.arg.id))

\* C12: right after a rename A -> B the backlink listing of the renamed note
\* lists exactly the other notes containing [[B]] ignoring case; a note that
\* refers only to [[A]] is not listed when A and B differ by more than case.
C12_BacklinksAfterRename ==
    Renamed =>
        /\ ListingFollowsNewTitle
        /\ toLowerCase(lastOp.arg.oldTitle) # toLowerCase(lastOp.arg.newTitle) =>
              \A i \in DOMAIN notes :
                 (/\ notes[i].id # lastOp.arg.id
                  /\ RefersOnlyTo(notes[i].content, lastOp.arg.oldTitle))
                     => i \notin backlinks(notes, NoteById(notes, lastOp.arg.id))

\* a rename a -> b of the open note, one other note referring to [[a]] only
\* and one to [[b]]: the listing has the second and not the first
C12_Witness ==
    /\ Renamed
    /\ activeNoteId = lastOp.arg.id
    /\ toLowerCase(lastOp.arg.oldTitle) # toLowerCase(lastOp.arg.newTitle)
    /\ \E i, j \in DOMAIN notes :
          /\ notes[i].id # lastOp.arg.id
          /\ RefersOnlyTo(notes[i].content, lastOp.arg.oldTitle)
          /\ i \notin backlinks(notes, NoteById(notes, lastOp.arg.id))
          /\ j \in backlinks(notes, NoteById(notes, lastOp.arg.id))

----------------------------------------------------------------------------
(* Properties of the local store *)

StoreCalled == lastOp.op \in {"saveNoteToLocal", "deleteNoteFromLocal"}

\* the stored value was absent or was not the JSON of an array
AbsentOrCorrupt(store) == store.kind # "array"

\* C13: getNotesFromLocal returns the empty array, raising nothing, when the
\* stored value is absent, unparseable or JSON of something other than an
\* array, and a saveNoteToLocal / deleteNoteFromLocal that follows completes
\* without an error.
C13_CorruptStoreReadsEmpty ==
    /\ (lastOp.op = "getNotesFromLocal" /\ AbsentOrCorrupt(lastOp.arg.prevStore)) =>
           (lastOp.arg.isArray /\ lastOp.arg.returned = <<>>)
    /\ (StoreCalled /\ AbsentOrCorrupt(lastOp.arg.prevStore)) => ~lastOp.arg.threw

\* cur is prev without the entries of that id, in prev's order
RemovedExactly(prev, cur, id) ==
    LET kept == {j \in DOMAIN prev : prev[j].id # id}
    IN /\ Len(cur) = Cardinality(kept)
       /\ \E f \in [DOMAIN cur -> DOMAIN prev] :
             /\ \A i \in DOMAIN cur : f[i] \in kept /\ cur[i] = prev[f[i]]
             /\ \A i, j \in DOMAIN cur : i < j => f[i] < f[j]

\* C14: on a stored array, saveNoteToLocal(n) replaces in place the entry of
\* n's id or appends n when there is none, leaving the other entries as they
\* were; deleteNoteFromLocal(id) removes exactly the entries of that id; and
\* the stored ids are pairwise distinct after every sequence of the two from
\* an empty store.
C14_StoreKeyedById ==
    /\ (lastOp.op = "saveNoteToLocal" /\ returnsArray(lastOp.arg.prevStore)) =>
           LET prev == getNotesFromLocal(lastOp.arg.prevStore)
               cur == getNotesFromLocal(localStore)
               n == lastOp.arg.note
           IN /\ localStore.kind = "array"
              /\ IF \E k \in DOMAIN prev : prev[k].id = n.id
                 THEN \E k \in DOMAIN prev : prev[k].id = n.id /\ cur = [prev EXCEPT ![k] = n]
                 ELSE cur = Append(prev, n)
    /\ (lastOp.op = "deleteNoteFromLocal" /\ returnsArray(lastOp.arg.prevStore)) =>
           /\ localStore.kind = "array"
           /\ RemovedExactly(getNotesFromLocal(lastOp.arg.prevStore),
                             getNotesFromLocal(localStore), lastOp.arg.id)
    /\ returnsArray(localStore) =>
           \A i, j \in DOMAIN getNotesFromLocal(localStore) :
              i # j => getNotesFromLocal(localStore)[i].id # getNotesFromLocal(localStore)[j].id

\* a save that replaced the middle entry of three stored notes by another
\* note of its id
C14_Witness ==
    /\ lastOp.op = "saveNoteToLocal"
    /\ Len(getNotesFromLocal(lastOp.arg.prevStore)) = 3
    /\ Len(getNotesFromLocal(localStore)) = 3
    /\ getNotesFromLocal(lastOp.arg.prevStore)[2].id = lastOp.arg.id
    /\ getNotesFromLocal(lastOp.arg.prevStore)[2] # lastOp.arg.note
    /\ getNotesFromLocal(localStore)[2] = lastOp.arg.note

----------------------------------------------------------------------------
(* Properties of the undo history *)

\* a snapshot was added to a history that was full
AddedToFull ==
    /\ lastOp.op = "saveToHistory"
    /\ Len(lastOp.arg.currentHistory) = HistoryLimit
    /\ lastOp.arg.currentHistory[HistoryLimit] # lastOp.arg.newContent

\* C15: the history of a mounted editor has at least 1 and at most 50
\* entries and 0 <= historyIndex < its length, after every sequence of typing
\* snapshots, structural-edit snapshots, undo and redo; a snapshot added to a
\* full history discards the oldest entry.
C15_HistoryBounded ==
    /\ editor.mounted =>
           /\ Len(editor.history) >= 1
           /\ Len(editor.history) <= HistoryLimit
           /\ 0 <= editor.historyIndex
           /\ editor.historyIndex < Len(editor.history)
    /\ AddedToFull =>
           editor.history = Append(Tail(lastOp.arg.currentHistory), lastOp.arg.newContent)

\* a typing snapshot taken from a stale render after an undo, added to a
\* full history
C15_Witness ==
    /\ AddedToFull
    /\ Len(editor.history) = HistoryLimit
    /\ editor.historyIndex = HistoryLimit - 1

----------------------------------------------------------------------------
(* Properties of the AI service *)

AiTexts ==
    {"response.text", "analysis fallback", "analysis error text", "chat fallback",
     "chat error text"}

\* C16: analyzeNote and chatWithBrain return a text for every outcome of the
\* third-party call (text, empty response, thrown error) and throw nothing,
\* and each handleAnalyze ends with aiLoading false.
C16_AiNeverThrows ==
    /\ lastOp.op \in {"handleAnalyzeDone", "chatWithBrain"} =>
           (~lastOp.arg.result.threw /\ lastOp.arg.result.value \in AiTexts)
    /\ lastOp.op = "handleAnalyzeDone" =>
           (~ai.loading /\ ai.response = lastOp.arg.result.value)

\* an analysis whose request was rejected has ended, showing the error text
C16_Witness ==
    /\ lastOp.op = "handleAnalyzeDone"
    /\ lastOp.arg.outcome = "throws"
    /\ ~ai.loading
    /\ ai.response = "analysis error text"

----------------------------------------------------------------------------
(* Properties of the sync against unpushed edits *)

\* the notes of the collection the sync merged into whose content was not
\* yet written to the folder: the note the debounce timer holds, and the
\* notes of a save request the relay has not served
Unpushed ==
    {n \in Elems(lastOp.arg.prevNotes) :
        \/ typingTimeout.pending /\ n = typingTimeout.note
        \/ \E k \in DOMAIN posts :
              /\ posts[k].action = "save"
              /\ posts[k].stage = "req"
              /\ posts[k].title = n.title
              /\ posts[k].content = n.content}

----------------------------------------------------------------------------
(* Properties of the collection *)

\* one of the operations that change the collection has completed (a sync
\* counts when it merged a listing)
Mutated ==
    \/ lastOp.op \in {"createNote", "handleImport", "handleChange", "handleTitleInput",
                      "handleDeleteNote", "handleRenameSubmit"}
    \/ Merged

\* C19: after createNote, updateNote, handleDeleteNote, handleRenameSubmit, an
\* import and a sync merge, localStorage holds exactly the notes of the
\* collection.
C19_StoreMirrorsCollection ==
    Mutated => (returnsArray(localStore) /\ getNotesFromLocal(localStore) = notes)

\* C20: the titles of the collection stay pairwise distinct under create,
\* import, sidebar rename, title edit, delete and sync merge.
C20_TitlesStayDistinct == DistinctTitles(notes)

----------------------------------------------------------------------------
(* Properties of the debounce *)

\* updateNote has just been called (by the textarea or the title input)
Updated == lastOp.op \in {"handleChange", "handleTitleInput"}

\* the save request issued last
LastPost == posts[Len(posts)]

\* C18: in a burst of updateNote calls less than 2 seconds apart every
\* earlier timer is cancelled, so one timer is live, holding the note of the
\* last call; it fires 2 seconds after that call and issues the one
\* saveNoteToDrive request, which carries that note.
C18_DebounceOneSave ==
    /\ Len(timeouts) <= 1
    /\ Updated =>
           \E n \in Elems(notes), e \in 0..DebounceDelay :
              n.lastModified = now - 1 /\ timeouts = <<[note |-> n, elapsed |-> e]>>
    /\ lastOp.op = "timerFires" =>
           /\ lastOp.arg.elapsed = DebounceDelay
           /\ timeouts = <<>>
           /\ lastOp.arg.note \in Elems(notes)
           /\ LastPost.action = "save" /\ LastPost.stage = "req"
           /\ LastPost.title = lastOp.arg.note.title
           /\ LastPost.content = lastOp.arg.note.content

\* the timer of the second call of a burst has fired: the first call's
\* timer issued nothing, the folder is still empty and one request is out
C18_Witness ==
    /\ lastOp.op = "timerFires"
    /\ lastOp.arg.note.lastModified = 1
    /\ now = 2
    /\ Len(posts) = 1
    /\ drive = <<>>
    /\ nextId = 1

\* C17: a sync that completes while a note has an edit not yet written to
\* the folder (timer pending or save in flight) leaves that note's content
\* as the user typed it.
C17_UnpushedEditKept ==
    lastOp.op = "syncDriveDone" =>
        \A n \in Unpushed : \A m \in Elems(notes) : m.id = n.id => m.content = n.content


----------------------------------------------------------------------------
(* Properties of a title change *)

\* C21: once a title change from A to B, the requests it caused and one sync
\* started after them have completed, the collection holds one note of the
\* retitled note's id, titled B, and no note titled A.
C21_RetitleSurvivesSync ==
    (past.watching /\ past.retitle.phase = "synced" /\ past.retitle.from # past.retitle.to) =>
        /\ Cardinality({i \in DOMAIN notes : notes[i].id = past.retitle.id}) = 1
        /\ NoteById(notes, past.retitle.id).title = past.retitle.to
        /\ \A i \in DOMAIN notes : notes[i].title # past.retitle.from


----------------------------------------------------------------------------
(* Properties of a deletion *)

\* C22: a note handleDeleteNote was called with is in the collection in no
\* later state, however the delete request and the syncs interleave.
C22_DeletedStaysDeleted ==
    past.watching => \A i \in DOMAIN notes : notes[i].id \notin past.deleted


----------------------------------------------------------------------------
(* Properties of the auto-save across notes *)

\* the user has just typed the content c into the note id
Typed(id, c) ==
    /\ lastOp.op = "handleChange"
    /\ lastOp.arg = id
    /\ HasNote(notes, id)
    /\ NoteById(notes, id).content = c

\* a save request carrying the note id with the content c is out
SaveSent(id, c) ==
    /\ HasNote(notes, id)
    /\ \E k \in DOMAIN posts :
          /\ posts[k].action = "save"
          /\ posts[k].title = NoteById(notes, id).title
          /\ posts[k].content = c

\* the note id no longer has the content c
EditedAgain(id, c) == ~HasNote(notes, id) \/ NoteById(notes, id).content # c

\* C23: a content typed into a note is eventually sent in a save request,
\* unless the note is edited again first; also when another note is edited
\* within the two seconds.
C23_EditEventuallySent ==
    \A id \in {1, 2} : \A c \in EditContents :
        Typed(id, c) ~> (SaveSent(id, c) \/ EditedAgain(id, c))


----------------------------------------------------------------------------
(* Properties of undo and redo across notes *)

\* C24: the content undo or redo has just written into the active note is a
\* content this note had in an earlier state.
C24_UndoWritesOwnPast ==
    (past.watching /\ lastOp.op \in {"handleUndo", "handleRedo"}) =>
        <<lastOp.arg, NoteById(notes, lastOp.arg).content>> \in past.held


----------------------------------------------------------------------------
(* Properties of the active note *)

\* C25: activeNoteId is null or the id of a note of the collection, in every
\* reachable state.
C25_ActiveNoteExists == activeNoteId = NoId \/ HasNote(notes, activeNoteId)


----------------------------------------------------------------------------
(* Properties of the back button *)

\* the positions of the history entries that name a note of the collection
Existing(hist) == {k \in DOMAIN hist : HasNote(notes, hist[k])}

\* C26: handleBack returns; the last history entry that names an existing
\* note is then the active note and the history is what came before that
\* entry, or, no entry naming an existing note, the history is empty and the
\* active note is the one it was.
C26_BackReachesExistingNote ==
    lastOp.op = "handleBack" =>
        LET h == lastOp.arg.prevHistory
            last == CHOOSE k \in Existing(h) : \A j \in Existing(h) : j <= k
        IN /\ ~lastOp.arg.threw
           /\ IF Existing(h) # {}
              THEN activeNoteId = h[last] /\ history = SubSeq(h, 1, last - 1)
              ELSE history = <<>> /\ activeNoteId = lastOp.arg.prevActive


----------------------------------------------------------------------------
(* Properties of the ids *)

\* C27: no two notes of the collection have the same id, in every reachable
\* state, whatever titles the stored notes and the files of the folder have.
C27_IdsDistinct ==
    \A i, j \in DOMAIN notes : i # j => notes[i].id # notes[j].id


----------------------------------------------------------------------------
(* Properties of the sync indicator *)

\* C28: isSyncing is true exactly while a run of syncDrive is between its
\* setIsSyncing(true) and its setIsSyncing(false), however many runs overlap.
C28_SyncingWhileFetching == isSyncing <=> fetches # <<>>


----------------------------------------------------------------------------
(* Properties of the modification stamps *)

\* C29: no step lowers the lastModified of a note: a note of the collection
\* before the step that is still in it after the step, by its id, has a
\* stamp at least as large.
C29_LastModifiedMonotone ==
    [][\A i \in DOMAIN notes : \A j \in DOMAIN notes' :
           notes[i].id = notes'[j].id => notes'[j].lastModified >= notes[i].lastModified]_vars


----------------------------------------------------------------------------
(* Properties of the backlinks against the graph *)

\* C30: for every two notes A and B of different ids, B is in the backlink
\* listing of A exactly when the link list of the graph has an edge from B
\* to A.
C30_BacklinksMatchGraph ==
    \A a, b \in DOMAIN notes :
        notes[a].id # notes[b].id =>
            (b \in backlinks(notes, notes[a]) <=> HasEdge(notes, notes[b], notes[a]))

====
